---- MODULE Spec2Model ----
(***************************************************************************)
(* Model of the dividends repository.                                      *)
(*                                                                         *)
(*   Dividend_predictor.py : pattern miner and predictor                   *)
(*   dividend_updater_backup_2025_06_08_1000.py : merger of new entries    *)
(*                                                                         *)
(* Dates are records [year, month, day]; amounts are integers counting     *)
(* hundredths; a confidence is an integer counting tenths of a percent     *)
(* (the code rounds it to one decimal place).                              *)
(***************************************************************************)
EXTENDS Integers, Sequences, FiniteSets, TLC

VARIABLES
    df,               \* rows of the historical store read by the predictor
    pc,               \* position of the predictor run: "load", "analyzed", "predicted"
    today,            \* datetime.now().date() of the run
    min_frequency,    \* --min-frequency
    prediction_days,  \* --days
    company_patterns, \* result of analyze_dividend_patterns (ordered mapping)
    predictions,      \* result of predict_upcoming_announcements
    cc,               \* a direct call of calculate_confidence: arguments and result
    csv_file,         \* the store file of the updater: leading blank row and data rows
    md_file,          \* the incoming markdown file: its candidate lines, already split
    csv_before,       \* the store file as it was when the last updater run started
    runs_on_md,       \* updater runs made on the current markdown file (capped at 2)
    summary           \* the counts printed by the last updater run

predictorVars ==
    <<df, pc, today, min_frequency, prediction_days, company_patterns, predictions>>

updaterVars == <<csv_file, md_file, csv_before, runs_on_md, summary>>

vars == <<predictorVars, cc, updaterVars>>

-----------------------------------------------------------------------------
(* Bounds and input sets *)

MaxRecords == 4

RECENT_ANNOUNCEMENT_WINDOW == 60
DEFAULT_PREDICTION_DAYS == 30
MIN_HISTORICAL_DIVIDENDS == 2

Date(y, m, d) == [year |-> y, month |-> m, day |-> d]

NoDate == Date(0, 0, 0)

Companies == {"Alpha (ALP)", "Beta (BET)"}

ExDates == { Date(2008, 2, 29), Date(2012, 2, 29),
             Date(2022, 3, 15), Date(2023, 3, 15), Date(2024, 1, 1) }

Amounts(d) == IF d.year = 2023 THEN {100, 120} ELSE {100}

Todays == { Date(2024, 2, 29), Date(2024, 3, 1), Date(2024, 3, 2) }

MinFrequencies == {1, MIN_HISTORICAL_DIVIDENDS, 3}

Horizons == {0, 14, DEFAULT_PREDICTION_DAYS, 379}

-----------------------------------------------------------------------------
(* Calendar arithmetic of datetime.date *)

IsLeap(y) == (y % 4 = 0 /\ y % 100 # 0) \/ y % 400 = 0

DaysInMonth(y, m) ==
    IF m = 2 THEN (IF IsLeap(y) THEN 29 ELSE 28)
    ELSE IF m \in {4, 6, 9, 11} THEN 30 ELSE 31

\* faulty variant: February is given 29 days in every year
IsValidDate_february_29(y, m, d) ==
    /\ y >= 1
    /\ m \in 1..12
    /\ d >= 1
    /\ d <= (IF m = 2 THEN 29 ELSE DaysInMonth(y, m))

\* datetime(year, month, day) raises ValueError unless this holds
IsValidDate(y, m, d) ==
    /\ y >= 1
    /\ m \in 1..12
    /\ d >= 1
    /\ d <= DaysInMonth(y, m)

\* days of the year that precede the first of month m
DaysBeforeMonth(y, m) ==
    << 0, 31, 59, 90, 120, 151, 181, 212, 243, 273, 304, 334 >>[m]
        + (IF m > 2 /\ IsLeap(y) THEN 1 ELSE 0)

DaysBeforeYear(y) ==
    (y - 1) * 365 + ((y - 1) \div 4) - ((y - 1) \div 100) + ((y - 1) \div 400)

\* date.toordinal(): the difference of two dates is the difference of these
ToOrdinal(d) == DaysBeforeYear(d.year) + DaysBeforeMonth(d.year, d.month) + d.day

-----------------------------------------------------------------------------
(* Sequence helpers *)

Range(s) == { s[i] : i \in 1..Len(s) }

Front(s) == SubSeq(s, 1, Len(s) - 1)

Last(s) == s[Len(s)]

RECURSIVE Concat(_)
Concat(ss) == IF ss = << >> THEN << >> ELSE Concat(Front(ss)) \o Last(ss)

RECURSIVE SumSeq(_)
SumSeq(s) == IF s = << >> THEN 0 ELSE SumSeq(Front(s)) + Last(s)

RECURSIVE MaxSeq(_)
MaxSeq(s) ==
    IF Len(s) = 1 THEN s[1]
    ELSE LET m == MaxSeq(Front(s)) IN IF Last(s) > m THEN Last(s) ELSE m

Min(a, b) == IF a < b THEN a ELSE b

Max(a, b) == IF a > b THEN a ELSE b

\* values in order of first occurrence (Series.unique, dict insertion order)
RECURSIVE unique(_)
unique(s) ==
    IF s = << >> THEN << >>
    ELSE LET u == unique(Front(s))
         IN  IF Last(s) \in Range(u) THEN u ELSE Append(u, Last(s))

-----------------------------------------------------------------------------
(* Pattern Miner: analyze_dividend_patterns, analyze_company_pattern_with_freq *)

\* the ex_date column of the rows
ExDateColumn(rows) == [i \in 1..Len(rows) |-> rows[i].ex_date]

\* the company column of the rows
CompanyColumn(rows) == [i \in 1..Len(rows) |-> rows[i].company]

\* df[df[company] == c]
CompanyData(rows, c) == SelectSeq(rows, LAMBDA r : r.company = c)

\* recent_cutoff = today - timedelta(days=RECENT_ANNOUNCEMENT_WINDOW), as an ordinal
RecentCutoff(now) == ToOrdinal(now) - RECENT_ANNOUNCEMENT_WINDOW

\* faulty variant: the cutoff day itself no longer counts as recent
RecentAnnouncements_after_cutoff(company_data, recent_cutoff) ==
    SelectSeq(company_data, LAMBDA r : ToOrdinal(r.ex_date) > recent_cutoff)

\* company_data[ex_date >= recent_cutoff]
RecentAnnouncements(company_data, recent_cutoff) ==
    SelectSeq(company_data, LAMBDA r : ToOrdinal(r.ex_date) >= recent_cutoff)

\* insertion of one date into an ascending list, after its equals
RECURSIVE InsertDate(_, _)
InsertDate(sorted, d) ==
    IF sorted = << >> THEN << d >>
    ELSE IF ToOrdinal(Last(sorted)) <= ToOrdinal(d) THEN Append(sorted, d)
    ELSE Append(InsertDate(Front(sorted), d), Last(sorted))

\* historical_dates.sort()
RECURSIVE SortDates(_)
SortDates(s) == IF s = << >> THEN << >> ELSE InsertDate(SortDates(Front(s)), Last(s))

RECURSIVE InsertRow(_, _)
InsertRow(sorted, r) ==
    IF sorted = << >> THEN << r >>
    ELSE IF ToOrdinal(Last(sorted).ex_date) <= ToOrdinal(r.ex_date) THEN Append(sorted, r)
    ELSE Append(InsertRow(Front(sorted), r), Last(sorted))

\* company_data.sort_values(ex_date)
RECURSIVE SortValues(_)
SortValues(rows) ==
    IF rows = << >> THEN << >> ELSE InsertRow(SortValues(Front(rows)), Last(rows))

MonthDay(d) == << d.month, d.day >>

\* month_day_patterns[(month, day)]: the year of every date of the group, in list order
YearsOf(historical_dates, md) ==
    LET grp == SelectSeq(historical_dates, LAMBDA d : MonthDay(d) = md)
    IN  [i \in 1..Len(grp) |-> grp[i].year]

\* the group is kept when len(years) >= 2
IsFrequent(years) == Len(years) >= 2

\* faulty variant: the sum of the dividend column instead of its mean
AvgDividend_sum(company_data, md) ==
    LET grp == SelectSeq(company_data, LAMBDA r : MonthDay(r.ex_date) = md)
    IN  [sum |-> SumSeq([i \in 1..Len(grp) |-> grp[i].dividend]), count |-> 1]

\* mean of the dividend column over the rows of the (month, day), as sum / count
AvgDividend(company_data, md) ==
    LET grp == SelectSeq(company_data, LAMBDA r : MonthDay(r.ex_date) = md)
    IN  [sum |-> SumSeq([i \in 1..Len(grp) |-> grp[i].dividend]), count |-> Len(grp)]

MakePattern(company_data, md, years) ==
    [ month        |-> md[1],
      day          |-> md[2],
      frequency    |-> Len(years),
      last_year    |-> MaxSeq(years),
      avg_dividend |-> AvgDividend(company_data, md),
      years        |-> years ]

\* faulty variant: the group threshold follows min_frequency instead of staying 2
analyze_company_pattern_group_min_freq(company_data, company_name, min_freq) ==
    LET historical_dates == SortDates(ExDateColumn(company_data))
        keys == unique([i \in 1..Len(historical_dates) |-> MonthDay(historical_dates[i])])
    IN  IF Len(historical_dates) < min_freq THEN << >>
        ELSE Concat([ i \in 1..Len(keys) |->
                 LET years == YearsOf(historical_dates, keys[i])
                 IN  IF Len(years) >= min_freq
                     THEN << MakePattern(company_data, keys[i], years) >>
                     ELSE << >> ])

\* the list of frequent patterns of one company; << >> stands for None
analyze_company_pattern_with_freq(company_data, company_name, min_freq) ==
    LET historical_dates == SortDates(ExDateColumn(company_data))
        keys == unique([i \in 1..Len(historical_dates) |-> MonthDay(historical_dates[i])])
    IN  IF Len(historical_dates) < min_freq THEN << >>
        ELSE Concat([ i \in 1..Len(keys) |->
                 LET years == YearsOf(historical_dates, keys[i])
                 IN  IF IsFrequent(years)
                     THEN << MakePattern(company_data, keys[i], years) >>
                     ELSE << >> ])

\* the entry of one company in company_patterns: none when the company is skipped
CompanyEntry(rows, company, min_freq, now) ==
    LET company_data == CompanyData(rows, company)
    IN  IF Len(company_data) < min_freq THEN << >>
        ELSE IF RecentAnnouncements(company_data, RecentCutoff(now)) # << >> THEN << >>
        ELSE LET patterns == analyze_company_pattern_with_freq(
                                 SortValues(company_data), company, min_freq)
             IN  IF patterns # << >>
                 THEN << [company |-> company, patterns |-> patterns] >>
                 ELSE << >>

\* company_patterns as the ordered list of its (company, patterns) items
analyze_dividend_patterns(rows, min_freq, now) ==
    LET cs == unique(CompanyColumn(rows))
    IN  Concat([ i \in 1..Len(cs) |-> CompanyEntry(rows, cs[i], min_freq, now) ])

-----------------------------------------------------------------------------
(* Predictor: predict_upcoming_announcements, calculate_confidence *)

\* faulty variant: the recency penalty is not floored at 0
calculate_confidence_no_floor(pattern, predicted_year) ==
    LET frequency_score5 == Min(pattern.frequency, 5)
        years_since_last == predicted_year - pattern.last_year
        recency_score5   == 5 - (years_since_last - 1)
    IN  140 * frequency_score5 + 60 * recency_score5

\* round((min(f / 5.0, 1.0) * 0.7 + max(0, 1.0 - (y - 1) * 0.2) * 0.3) * 100, 1),
\* in tenths of a percent: 0.7 * f / 5 * 1000 = 140 f, 0.3 * 0.2 * 1000 = 60
calculate_confidence(pattern, predicted_year) ==
    LET frequency_score5 == Min(pattern.frequency, 5)
        years_since_last == predicted_year - pattern.last_year
        recency_score5   == Max(0, 5 - (years_since_last - 1))
    IN  140 * frequency_score5 + 60 * recency_score5

\* faulty variant: the end of the window is exclusive
InWindow_end_exclusive(predicted, now, end_date) ==
    /\ ToOrdinal(now) <= ToOrdinal(predicted)
    /\ ToOrdinal(predicted) < end_date

\* today <= predicted_date <= end_date
InWindow(predicted, now, end_date) ==
    /\ ToOrdinal(now) <= ToOrdinal(predicted)
    /\ ToOrdinal(predicted) <= end_date

\* one pass of the loop body over the candidate years: zero or one prediction
Candidate(company, pattern, year, now, end_date) ==
    IF ~IsValidDate(year, pattern.month, pattern.day) THEN << >>
    ELSE LET predicted_date == Date(year, pattern.month, pattern.day)
         IN  IF InWindow(predicted_date, now, end_date)
             THEN << [ company           |-> company,
                       predicted_ex_date |-> predicted_date,
                       days_until        |-> ToOrdinal(predicted_date) - ToOrdinal(now),
                       frequency         |-> pattern.frequency,
                       last_occurrence   |-> pattern.last_year,
                       avg_dividend      |-> pattern.avg_dividend,
                       confidence        |-> calculate_confidence(pattern, year),
                       pattern_years     |-> pattern.years ] >>
             ELSE << >>

\* the predictions list before it is sorted
Unsorted(patterns_of, days, now) ==
    LET end_date == ToOrdinal(now) + days
    IN  Concat([ i \in 1..Len(patterns_of) |->
            Concat([ j \in 1..Len(patterns_of[i].patterns) |->
                Candidate(patterns_of[i].company, patterns_of[i].patterns[j],
                          now.year, now, end_date)
                \o Candidate(patterns_of[i].company, patterns_of[i].patterns[j],
                             now.year + 1, now, end_date) ]) ])

\* faulty variant: ties are broken by ascending confidence
KeyLessEq_ascending_confidence(p, q) ==
    \/ p.days_until < q.days_until
    \/ /\ p.days_until = q.days_until
       /\ p.confidence <= q.confidence

\* key=lambda x: (x['days_until'], -x['confidence']), compared as tuples
KeyLessEq(p, q) ==
    \/ p.days_until < q.days_until
    \/ /\ p.days_until = q.days_until
       /\ (0 - p.confidence) <= (0 - q.confidence)

RECURSIVE InsertPrediction(_, _)
InsertPrediction(sorted, p) ==
    IF sorted = << >> THEN << p >>
    ELSE IF KeyLessEq(Last(sorted), p) THEN Append(sorted, p)
    ELSE Append(InsertPrediction(Front(sorted), p), Last(sorted))

\* predictions.sort(key=...): stable
RECURSIVE SortPredictions(_)
SortPredictions(s) ==
    IF s = << >> THEN << >>
    ELSE InsertPrediction(SortPredictions(Front(s)), Last(s))

predict_upcoming_announcements(patterns_of, days, now) ==
    SortPredictions(Unsorted(patterns_of, days, now))

-----------------------------------------------------------------------------
(* The predictor run: main() of Dividend_predictor.py *)

Rows == { [company |-> c, ex_date |-> d, dividend |-> a] :
              c \in Companies, d \in ExDates, a \in {100, 120} }

RowUniverse == { r \in Rows : r.dividend \in Amounts(r.ex_date) }

PredictorInit ==
    /\ df = << >>
    /\ pc = "load"
    /\ today = NoDate
    /\ min_frequency = 0
    /\ prediction_days = 0
    /\ company_patterns = << >>
    /\ predictions = << >>

NoCall == [called |-> FALSE, frequency |-> 0, last_year |-> 0, predicted_year |-> 0, result |-> 0]

NoSummary == [total_md_entries |-> 0, md_duplicates |-> 0, csv_duplicates |-> 0, new_added |-> 0]

NoStore == [blank_first |-> FALSE, rows |-> << >>]

\* the updater is not run
UpdaterIdle ==
    /\ csv_file = NoStore
    /\ md_file = << >>
    /\ csv_before = NoStore
    /\ runs_on_md = 0
    /\ summary = NoSummary

Init ==
    /\ PredictorInit
    /\ cc = NoCall
    /\ UpdaterIdle

\* the order of the rows of the store: by ex_date (the merger writes the store
\* sorted by ex_date), rows of one date by company and amount
RowLessEq(r, q) ==
    \/ ToOrdinal(r.ex_date) < ToOrdinal(q.ex_date)
    \/ /\ r.ex_date = q.ex_date
       /\ \/ r.company = "Alpha (ALP)" /\ q.company # "Alpha (ALP)"
          \/ r.company = q.company /\ r.dividend <= q.dividend

\* pd.read_csv: one more row of the store
ReadRow ==
    /\ pc = "load"
    /\ Len(df) < MaxRecords
    /\ \E r \in RowUniverse :
          /\ df # << >> => RowLessEq(Last(df), r)
          /\ df' = Append(df, r)
    /\ UNCHANGED <<pc, today, min_frequency, prediction_days, company_patterns, predictions>>
    /\ UNCHANGED <<cc, updaterVars>>

AnalyzeDividendPatterns ==
    /\ pc = "load"
    /\ df # << >>
    /\ \E m \in MinFrequencies, t \in Todays :
          /\ min_frequency' = m
          /\ today' = t
          /\ company_patterns' = analyze_dividend_patterns(df, m, t)
    /\ pc' = "analyzed"
    /\ UNCHANGED <<df, prediction_days, predictions>>
    /\ UNCHANGED <<cc, updaterVars>>

\* main() returns before predicting when no pattern was found
PredictUpcomingAnnouncements ==
    /\ pc = "analyzed"
    /\ company_patterns # << >>
    /\ \E h \in Horizons :
          /\ prediction_days' = h
          /\ predictions' = predict_upcoming_announcements(company_patterns, h, today)
    /\ pc' = "predicted"
    /\ UNCHANGED <<df, today, min_frequency, company_patterns>>
    /\ UNCHANGED <<cc, updaterVars>>

Next ==
    \/ ReadRow
    \/ AnalyzeDividendPatterns
    \/ PredictUpcomingAnnouncements

Spec == Init /\ [][Next]_vars

-----------------------------------------------------------------------------
(* calculate_confidence called on its own, for any pattern and predicted year *)

MaxFrequency == 6

ConfidenceYears == 2012..2025

PredictorIdle ==
    /\ df = << >>
    /\ pc = "idle"
    /\ today = NoDate
    /\ min_frequency = 0
    /\ prediction_days = 0
    /\ company_patterns = << >>
    /\ predictions = << >>

ConfidenceInit ==
    /\ PredictorIdle
    /\ cc = NoCall
    /\ UpdaterIdle

CalculateConfidence ==
    /\ \E f \in 1..MaxFrequency, ly \in ConfidenceYears, py \in ConfidenceYears :
          cc' = [ called         |-> TRUE,
                  frequency      |-> f,
                  last_year      |-> ly,
                  predicted_year |-> py,
                  result         |-> calculate_confidence(
                                         [frequency |-> f, last_year |-> ly], py) ]
    /\ UNCHANGED <<predictorVars, updaterVars>>

ConfidenceNext == CalculateConfidence

SpecConfidence == ConfidenceInit /\ [][ConfidenceNext]_vars

-----------------------------------------------------------------------------
(* Properties of the pattern miner and the predictor *)

Analyzed == pc \in {"analyzed", "predicted"}

Predicted == pc = "predicted"

\* the rows of company c, and those of one of its (month, day) groups
RowsOf(c) == { i \in 1..Len(df) : df[i].company = c }

GroupOf(c, md) ==
    { i \in RowsOf(c) : df[i].ex_date.month = md[1] /\ df[i].ex_date.day = md[2] }

MonthDaysOf(c) == { << df[i].ex_date.month, df[i].ex_date.day >> : i \in RowsOf(c) }

DistinctYears(c, md) == { df[i].ex_date.year : i \in GroupOf(c, md) }

InMapping(c) == \E i \in 1..Len(company_patterns) : company_patterns[i].company = c

PatternsOf(c) ==
    LET es == SelectSeq(company_patterns, LAMBDA e : e.company = c)
    IN  IF es = << >> THEN << >> ELSE es[1].patterns

PatternsAt(c, md) ==
    LET ps == PatternsOf(c)
    IN  { j \in 1..Len(ps) : ps[j].month = md[1] /\ ps[j].day = md[2] }

\* the (month, day) pairs of the patterns of company c
MappedMonthDays(c) ==
    LET ps == PatternsOf(c)
    IN  { << ps[j].month, ps[j].day >> : j \in 1..Len(ps) }

\* the company passes the record-count and the recent-window checks
Passes(c) ==
    /\ RowsOf(c) # {}
    /\ Cardinality(RowsOf(c)) >= min_frequency
    /\ \A i \in RowsOf(c) : ToOrdinal(today) - ToOrdinal(df[i].ex_date) > 60

PredictionsFor(c, y, md) ==
    { k \in 1..Len(predictions) :
          /\ predictions[k].company = c
          /\ predictions[k].predicted_ex_date = Date(y, md[1], md[2]) }

CandidateYears == { today.year, today.year + 1 }

\* day d of month m exists in year y
OnCalendar(y, m, d) ==
    /\ m \in 1..12
    /\ d >= 1
    /\ d <= 31
    /\ m \in {4, 6, 9, 11} => d <= 30
    /\ m = 2 => d <= (IF IsLeap(y) THEN 29 ELSE 28)

\* the candidate is a calendar date inside the window, both ends included
Feasible(y, md) ==
    /\ OnCalendar(y, md[1], md[2])
    /\ ToOrdinal(today) <= ToOrdinal(Date(y, md[1], md[2]))
    /\ ToOrdinal(Date(y, md[1], md[2])) <= ToOrdinal(today) + prediction_days

\* C1: a company with a record whose ex_date lies in the 60 days before today has
\* no entry in the mined mapping and gets no prediction, whatever recurring groups
\* it has; a company whose records are all 61 or more days old, that has enough
\* records and a recurring group, is in the mapping.
C1_RecentCompanyExcluded ==
    Analyzed =>
        \A c \in Companies :
            LET age == { ToOrdinal(today) - ToOrdinal(df[i].ex_date) : i \in RowsOf(c) }
            IN  /\ (\E a \in age : a >= 0 /\ a <= 60)
                       => /\ ~InMapping(c)
                          /\ Predicted =>
                                 \A k \in 1..Len(predictions) : predictions[k].company # c
                /\ ( /\ age # {}
                     /\ \A a \in age : a >= 61
                     /\ Cardinality(RowsOf(c)) >= min_frequency
                     /\ \E md \in MonthDaysOf(c) : Cardinality(GroupOf(c, md)) >= 2 )
                       => InMapping(c)

\* a company left out although it has enough records and a group of two distinct
\* years, because one of its records is exactly 60 days old
C1_Witness ==
    /\ pc = "analyzed"
    /\ \E c \in Companies :
          /\ Cardinality(RowsOf(c)) >= min_frequency
          /\ \E i \in RowsOf(c) : ToOrdinal(today) - ToOrdinal(df[i].ex_date) = 60
          /\ \E md \in MonthDaysOf(c) : Cardinality(DistinctYears(c, md)) >= 2
          /\ ~InMapping(c)

\* C2: for a company that passes the record-count and recent-window checks, a
\* (month, day) group gets exactly one Pattern when it holds at least 2 distinct
\* years and none when it holds 1 distinct year; the Pattern's frequency is the
\* number of distinct years and last_year the largest of them.
C2_DistinctYearsDecide ==
    Analyzed =>
        \A c \in Companies : Passes(c) =>
            \A md \in MonthDaysOf(c) :
                LET years == DistinctYears(c, md)
                IN  /\ Cardinality(PatternsAt(c, md)) =
                           (IF Cardinality(years) >= 2 THEN 1 ELSE 0)
                    /\ \A j \in PatternsAt(c, md) :
                           LET pattern == PatternsOf(c)[j]
                           IN  /\ pattern.frequency = Cardinality(years)
                               /\ \A y \in years : y <= pattern.last_year
                               /\ pattern.last_year \in years

\* C3: a company with fewer than min_frequency records is absent from the mapping;
\* no company is mapped to an empty list; for a company that passes the checks a
\* group is retained exactly when it has 2 or more occurrences, whatever
\* min_frequency is.
C3_MinFrequencyAndThreshold ==
    Analyzed =>
        /\ \A c \in Companies :
               Cardinality(RowsOf(c)) < min_frequency => ~InMapping(c)
        /\ \A i \in 1..Len(company_patterns) : company_patterns[i].patterns # << >>
        /\ \A c \in Companies :
               LET passes == Passes(c)
                   mapped == InMapping(c)
               IN  /\ mapped => passes
                   /\ passes =>
                        /\ \A md \in MonthDaysOf(c) :
                               Cardinality(PatternsAt(c, md)) =
                                   (IF Cardinality(GroupOf(c, md)) >= 2 THEN 1 ELSE 0)
                        /\ mapped <=>
                               \E md \in MonthDaysOf(c) : Cardinality(GroupOf(c, md)) >= 2

\* min_frequency 3: one company is left out for having too few records although
\* it has a recurring group, another is kept with a group of 2 occurrences
C3_Witness ==
    /\ pc = "analyzed"
    /\ min_frequency = 3
    /\ \E c \in Companies :
          /\ RowsOf(c) # {}
          /\ Cardinality(RowsOf(c)) < min_frequency
          /\ ~InMapping(c)
    /\ \E c \in Companies :
          /\ InMapping(c)
          /\ \E j \in 1..Len(PatternsOf(c)) : PatternsOf(c)[j].frequency = 2

C6_WindowFilter ==
    Predicted =>
        /\ \A c \in Companies : \A md \in MappedMonthDays(c) :
                   /\ \A y \in CandidateYears :
                          Cardinality(PredictionsFor(c, y, md)) =
                              (IF Feasible(y, md) THEN 1 ELSE 0)
                   /\ Cardinality({ k \in 1..Len(predictions) :
                          /\ predictions[k].company = c
                          /\ MonthDay(predictions[k].predicted_ex_date) = md }) <= 2
        /\ \A k \in 1..Len(predictions) :
               LET p == predictions[k]
               IN  /\ p.days_until = ToOrdinal(p.predicted_ex_date) - ToOrdinal(today)
                   /\ p.days_until >= 0
                   /\ p.days_until <= prediction_days
                   /\ p.predicted_ex_date.year \in CandidateYears
                   /\ PatternsAt(p.company, MonthDay(p.predicted_ex_date)) # {}

\* one pattern gives two predictions, the later one on the last day of the window
C6_Witness ==
    /\ Predicted
    /\ \E k, l \in 1..Len(predictions) :
          /\ predictions[k].company = predictions[l].company
          /\ MonthDay(predictions[k].predicted_ex_date) = MonthDay(predictions[l].predicted_ex_date)
          /\ predictions[k].predicted_ex_date.year = today.year
          /\ predictions[l].predicted_ex_date.year = today.year + 1
          /\ predictions[l].days_until = prediction_days

\* C7: a 29 February group is retained by the miner like any other; in the
\* predictor every prediction carries a calendar date, a candidate year without
\* 29 February gives no prediction, every other feasible candidate still gives
\* its prediction (the run reaches "predicted" with the list, see C7_Witness).
C7_LeapDaySkipped ==
    /\ Analyzed =>
           \A c \in Companies :
               (Passes(c) /\ Cardinality(GroupOf(c, << 2, 29 >>)) >= 2)
                   => PatternsAt(c, << 2, 29 >>) # {}
    /\ Predicted =>
           /\ \A k \in 1..Len(predictions) :
                  LET d == predictions[k].predicted_ex_date
                  IN  OnCalendar(d.year, d.month, d.day)
           /\ \A c \in Companies : \A y \in CandidateYears :
                  /\ (PatternsAt(c, << 2, 29 >>) # {} /\ ~IsLeap(y)) =>
                         \A k \in 1..Len(predictions) :
                             (predictions[k].company = c /\ predictions[k].predicted_ex_date.year = y)
                                 => PatternsAt(c, MonthDay(predictions[k].predicted_ex_date)) # {}
                  /\ \A md \in MappedMonthDays(c) :
                         Feasible(y, md) => PredictionsFor(c, y, md) # {}

\* a 29 February pattern whose next-year candidate does not exist, while its
\* this-year candidate and a pattern of another company are predicted
C7_Witness ==
    /\ Predicted
    /\ \E c \in Companies :
          /\ PatternsAt(c, << 2, 29 >>) # {}
          /\ ~IsLeap(today.year + 1)
          /\ PredictionsFor(c, today.year, << 2, 29 >>) # {}
          /\ \E k \in 1..Len(predictions) : predictions[k].company # c

\* number of times p occurs in s
Occurrences(s, p) == Cardinality({ k \in 1..Len(s) : s[k] = p })

\* C8: adjacent predictions are in ascending days_until order, ties in descending
\* confidence order, and the returned list holds exactly the predictions that
\* passed the window filter, each as often as it was produced.
C8_Ordered ==
    Predicted =>
        /\ \A k \in 1..(Len(predictions) - 1) :
               \/ predictions[k].days_until < predictions[k + 1].days_until
               \/ /\ predictions[k].days_until = predictions[k + 1].days_until
                  /\ predictions[k].confidence >= predictions[k + 1].confidence
        /\ LET produced == Unsorted(company_patterns, prediction_days, today)
           IN  /\ Len(produced) = Len(predictions)
               /\ \A p \in Range(produced) \cup Range(predictions) :
                      Occurrences(produced, p) = Occurrences(predictions, p)

\* two predictions for the same day with different confidence, which the sort
\* had to swap
C8_Witness ==
    /\ Predicted
    /\ predictions # Unsorted(company_patterns, prediction_days, today)
    /\ \E k \in 1..(Len(predictions) - 1) :
          /\ predictions[k].days_until = predictions[k + 1].days_until
          /\ predictions[k].confidence > predictions[k + 1].confidence

AlphaStore ==
    << [company |-> "Alpha (ALP)", ex_date |-> Date(2022, 3, 15), dividend |-> 100],
       [company |-> "Alpha (ALP)", ex_date |-> Date(2023, 3, 15), dividend |-> 120] >>

AlphaScenario ==
    /\ df = AlphaStore
    /\ min_frequency = 2
    /\ today = Date(2024, 3, 1)

\* C9: with the store holding only Alpha (ALP) on 15.03.2022 (1.0) and 15.03.2023
\* (1.2), min_frequency 2, today 2024-03-01 and 30 days of horizon, mining finds a
\* pattern and predicting yields exactly one prediction: 15.03.2024, 14 days
\* ahead, frequency 2, last occurrence 2023, average dividend 1.1, confidence 58.0.
C9_AlphaScenario ==
    /\ (pc = "analyzed" /\ AlphaScenario) => company_patterns # << >>
    /\ (Predicted /\ AlphaScenario /\ prediction_days = 30) =>
           /\ Len(predictions) = 1
           /\ predictions[1].company = "Alpha (ALP)"
           /\ predictions[1].predicted_ex_date = Date(2024, 3, 15)
           /\ predictions[1].days_until = 14
           /\ predictions[1].frequency = 2
           /\ predictions[1].last_occurrence = 2023
           /\ predictions[1].avg_dividend.sum = 110 * predictions[1].avg_dividend.count
           /\ predictions[1].confidence = 580

C9_Witness == Predicted /\ AlphaScenario /\ prediction_days = 30

\* C5: calculate_confidence clamps the recency score to [0, 1]: when predicted_year
\* is last_year or earlier the recency score is 1.0, so the result is
\* 100 * (0.7 * min(frequency / 5, 1) + 0.3), and no result exceeds 100.
C5_RecencyClamped ==
    cc.called =>
        /\ cc.result >= 0
        /\ cc.result <= 1000
        /\ cc.predicted_year <= cc.last_year =>
               cc.result = 140 * Min(cc.frequency, 5) + 300

-----------------------------------------------------------------------------
(* Updater (merger): texts of dividend_updater_backup_2025_06_08_1000.py *)

(* A company name is a sequence of one-character strings.  A date text is a   *)
(* record [day, month, year, padded]: padded tells "01.03.2024" from          *)
(* "1.3.2024".  An amount text is [kind, milli, zeros]: kind "number" with    *)
(* the value in thousandths, zeros telling "1.50" from "1.5"; kind "empty"    *)
(* and "word" are the texts float() has nothing to read from; kind "nan" is   *)
(* the text "nan", which float() reads as the value NaN.                      *)

MaxBatch == 2

MaxStore == 2

Text(y, m, d, padded) == [year |-> y, month |-> m, day |-> d, padded |-> padded]

EmptyText == Text(0, 0, 0, FALSE)

Number(milli, zeros) == [kind |-> "number", milli |-> milli, zeros |-> zeros]

NaNText == [kind |-> "nan", milli |-> 0, zeros |-> FALSE]

\* float('nan'): a value apart from every amount; every comparison with it is false
NaN == -1

IsNaN(x) == x = NaN

\* float(dividend_str) of a text that float() can read
Float(text) == IF text.kind = "nan" THEN NaN ELSE text.milli

\* dividend <= 0
NotPositive(x) == ~IsNaN(x) /\ x <= 0

IsSpace(ch) == ch = " "

RECURSIVE LStrip(_)
LStrip(s) == IF s # << >> /\ IsSpace(s[1]) THEN LStrip(Tail(s)) ELSE s

RECURSIVE RStrip(_)
RStrip(s) == IF s # << >> /\ IsSpace(Last(s)) THEN RStrip(Front(s)) ELSE s

\* str.strip()
Strip(s) == RStrip(LStrip(s))

\* position of the first occurrence of ch in s at or after from, 0 when none
FirstAt(s, ch, from) ==
    LET hits == { k \in from..Len(s) : s[k] = ch }
    IN  IF hits = {} THEN 0 ELSE CHOOSE k \in hits : \A l \in hits : k <= l

\* re.sub(r'\s+', '', name)
RemoveWhitespace(s) == SelectSeq(s, LAMBDA ch : ~IsSpace(ch))

\* re.sub(r'\([^\)]+\)', '', name): leftmost matches, each from a "(" to the
\* first ")" after it with at least one character between them
RECURSIVE RemoveParenthesized(_)
RemoveParenthesized(s) ==
    IF s = << >> THEN << >>
    ELSE LET close == FirstAt(s, ")", 2)
         IN  IF s[1] = "(" /\ close >= 3
             THEN RemoveParenthesized(SubSeq(s, close + 1, Len(s)))
             ELSE << s[1] >> \o RemoveParenthesized(Tail(s))

normalize_company_name(name) == Strip(RemoveParenthesized(RemoveWhitespace(name)))

\* company_with_acronym of parse_md_file, from the stripped company column
CompanyWithAcronym(company_full) ==
    LET open  == FirstAt(company_full, "(", 1)
        close == IF open = 0 THEN 0 ELSE FirstAt(company_full, ")", open + 1)
    IN  IF "(" \in Range(company_full) /\ ")" \in Range(company_full)
            /\ open >= 2 /\ close >= open + 2
        THEN Strip(SubSeq(company_full, 1, open - 1))
                 \o << " ", "(" >>
                 \o Strip(SubSeq(company_full, open + 1, close - 1))
                 \o << ")" >>
        ELSE company_full

\* the company name without acronym of is_duplicate_entry: re.match(r'^([^(]+)')
NameBeforeParenthesis(company) ==
    LET open == FirstAt(company, "(", 1)
    IN  IF company = << >> \/ open = 1 THEN company
        ELSE IF open = 0 THEN Strip(company)
        ELSE Strip(SubSeq(company, 1, open - 1))

\* datetime.strptime(text, '%d.%m.%Y') succeeds
ParsesAsDate(text) == IsValidDate(text.year, text.month, text.day)

StrpTime(text) == Date(text.year, text.month, text.day)

\* strftime('%d.%m.%Y'): two-digit day and month
StrfTime(d) == Text(d.year, d.month, d.day, TRUE)

\* pd.to_datetime(column, format, errors='coerce').dt.strftime: NaN for a text that is no date
NormalizeDateText(text) == IF ParsesAsDate(text) THEN StrfTime(StrpTime(text)) ELSE EmptyText

\* the key of an entry among the entries of one markdown file
EntryKey(company_with_acronym, ex_date, dividend) ==
    << company_with_acronym, ex_date, dividend >>

\* the outcome of one line of the markdown file: "skip" or the entry it gives
ParseLine(line) ==
    IF line.parts < 6 \/ Strip(line.company) = << >> THEN [kind |-> "skip"]
    ELSE IF line.dividend.kind = "empty" \/ line.ex_date = EmptyText
             \/ line.payment_date = EmptyText THEN [kind |-> "skip"]
    ELSE IF line.dividend.kind \notin {"number", "nan"} THEN [kind |-> "skip"]
    ELSE IF NotPositive(Float(line.dividend)) THEN [kind |-> "skip"]
    ELSE IF ~ParsesAsDate(line.ex_date) \/ ~ParsesAsDate(line.payment_date)
        THEN [kind |-> "skip"]
    ELSE IF ToOrdinal(StrpTime(line.payment_date)) < ToOrdinal(StrpTime(line.ex_date))
        THEN [kind |-> "skip"]
    ELSE [ kind         |-> "entry",
           company      |-> CompanyWithAcronym(Strip(line.company)),
           ex_date      |-> line.ex_date,
           dividend     |-> Float(line.dividend),
           payment_date |-> line.payment_date ]

EntryKeyOf(e) == EntryKey(e.company, e.ex_date, e.dividend)

\* the entries of parse_md_file: a line whose key was seen before is skipped
RECURSIVE parse_md_file(_)
parse_md_file(lines) ==
    IF lines = << >> THEN << >>
    ELSE LET entries == parse_md_file(Front(lines))
             e == ParseLine(Last(lines))
             seen_entries == { EntryKeyOf(entries[i]) : i \in 1..Len(entries) }
         IN  IF e.kind = "skip" \/ EntryKeyOf(e) \in seen_entries THEN entries
             ELSE Append(entries, [ company      |-> e.company,
                                    ex_date      |-> e.ex_date,
                                    dividend     |-> e.dividend,
                                    payment_date |-> e.payment_date ])

\* abs(existing - dividend) < 0.01, in thousandths
WithinTolerance(a, b) ==
    ~IsNaN(a) /\ ~IsNaN(b) /\ (IF a >= b THEN a - b ELSE b - a) < 10

\* the normalized name on the incoming side of is_duplicate_entry
NormalizedNew(company) == normalize_company_name(NameBeforeParenthesis(company))

is_duplicate_entry(row, rows) ==
    \E i \in 1..Len(rows) :
        /\ normalize_company_name(rows[i].company) = NormalizedNew(row.company)
        /\ rows[i].ex_date = row.ex_date
        /\ WithinTolerance(rows[i].dividend, row.dividend)

\* the ex_date column rewritten by to_datetime(...).dt.strftime
NormalizeDates(rows) == [i \in 1..Len(rows) |-> [rows[i] EXCEPT !.ex_date = NormalizeDateText(@)]]

\* faulty variant: the rows ordered by the DD.MM.YYYY text of the ex_date
SortDate_as_text(row) ==
    row.ex_date.day * 1000000 + row.ex_date.month * 10000 + row.ex_date.year

\* sort key of a row: its ex_date as a date; a row without date sorts last
SortDate(row) == IF row.ex_date = EmptyText THEN 10000000 ELSE ToOrdinal(StrpTime(row.ex_date))

RECURSIVE InsertBySortDate(_, _)
InsertBySortDate(sorted, r) ==
    IF sorted = << >> THEN << r >>
    ELSE IF SortDate(Last(sorted)) <= SortDate(r) THEN Append(sorted, r)
    ELSE Append(InsertBySortDate(Front(sorted), r), Last(sorted))

\* df_updated.sort_values('sort_date')
RECURSIVE SortBySortDate(_)
SortBySortDate(rows) ==
    IF rows = << >> THEN << >>
    ELSE InsertBySortDate(SortBySortDate(Front(rows)), Last(rows))

\* pd.read_csv raises on a file without any row (iloc[0])
CsvReadFails(file) == ~file.blank_first /\ file.rows = << >>

\* faulty variant: the store is written at the end of every run that could read it
update_csv_file_always_writes(file, lines) ==
    LET df_csv == NormalizeDates(file.rows)
        df_new == NormalizeDates(parse_md_file(lines))
        new_entries == SelectSeq(df_new, LAMBDA r : ~is_duplicate_entry(r, df_csv))
        counts == [ total_md_entries |-> Len(df_new),
                    md_duplicates    |-> 0,
                    csv_duplicates   |-> Len(df_new) - Len(new_entries),
                    new_added        |-> Len(new_entries) ]
    IN  IF CsvReadFails(file) THEN [file |-> file, summary |-> NoSummary]
        ELSE [ file    |-> [ blank_first |-> TRUE,
                             rows |-> SortBySortDate(df_csv \o new_entries) ],
               summary |-> IF df_new = << >> THEN NoSummary ELSE counts ]

\* what one run of update_csv_file leaves: the store file and the printed counts
update_csv_file(file, lines) ==
    LET df_csv == NormalizeDates(file.rows)
        df_new == NormalizeDates(parse_md_file(lines))
        total  == Len(df_new)
        new_entries == SelectSeq(df_new, LAMBDA r : ~is_duplicate_entry(r, df_csv))
        counts == [ total_md_entries |-> total,
                    md_duplicates    |-> total - Len(df_new),
                    csv_duplicates   |-> Len(df_new) - Len(new_entries),
                    new_added        |-> Len(new_entries) ]
    IN  IF CsvReadFails(file) THEN [file |-> file, summary |-> NoSummary]
        ELSE IF df_new = << >> THEN [file |-> file, summary |-> NoSummary]
        ELSE IF new_entries = << >> THEN [file |-> file, summary |-> counts]
        ELSE [ file    |-> [ blank_first |-> TRUE,
                             rows |-> SortBySortDate(df_csv \o new_entries) ],
               summary |-> counts ]

-----------------------------------------------------------------------------
(* The updater runs: main() of the updater on the files of the directory *)

NameCode     == << "N", " ", "(", "C", ")" >>
NamePlain    == << "N" >>
NameUnclosed == << "N", " ", "(", "C" >>
NameEmpty    == << "N", " ", "(", ")" >>
NameMarkdown == << "*", "*", "N", "*", "*", "(", "[", "C", "]", "(", "l", ")", ")" >>

BaseLine ==
    [ parts        |-> 7,
      company      |-> NameCode,
      ex_date      |-> Text(2024, 3, 1, TRUE),
      dividend     |-> Number(1500, FALSE),
      payment_date |-> Text(2024, 3, 15, TRUE) ]

\* lines that differ from the base line in the company column
NameLines ==
    { [BaseLine EXCEPT !.company = n] :
          n \in {NameCode, NamePlain, NameUnclosed, NameEmpty, NameMarkdown} }

\* lines that differ from the base line in the ex_date column
DateLines ==
    { [BaseLine EXCEPT !.ex_date = t] : t \in {Text(2024, 1, 15, TRUE)} }

\* lines that parse_md_file skips: amount 0, payment before the ex-date
SkippedLines ==
    { [BaseLine EXCEPT !.dividend = Number(0, FALSE)],
      [BaseLine EXCEPT !.payment_date = Text(2024, 1, 1, TRUE)] }

\* the lines a markdown file is made of
LineUniverse == NameLines \cup DateLines

StoredRow == [ company      |-> NameCode,
               ex_date      |-> Text(2024, 1, 15, TRUE),
               dividend     |-> 1500,
               payment_date |-> Text(2024, 3, 15, TRUE) ]

InitialStores ==
    { [blank_first |-> TRUE, rows |-> << >>],
      [blank_first |-> TRUE, rows |-> << StoredRow >>],
      NoStore }

UpdaterInit ==
    /\ csv_file \in InitialStores
    /\ md_file = << >>
    /\ csv_before = csv_file
    /\ runs_on_md = 0
    /\ summary = NoSummary

MergerInit ==
    /\ PredictorIdle
    /\ cc = NoCall
    /\ UpdaterInit

\* one more line is written to the markdown file that no run has read yet
WriteMdLine(lines) ==
    /\ runs_on_md = 0
    /\ Len(md_file) < MaxBatch
    /\ \E line \in lines : md_file' = Append(md_file, line)
    /\ UNCHANGED <<csv_file, csv_before, runs_on_md, summary>>
    /\ UNCHANGED <<predictorVars, cc>>

\* a new, still empty markdown file takes the place of the one already merged
NewMdFile ==
    /\ runs_on_md > 0
    /\ md_file' = << >>
    /\ runs_on_md' = 0
    /\ UNCHANGED <<csv_file, csv_before, summary>>
    /\ UNCHANGED <<predictorVars, cc>>

UpdateCsvFile ==
    /\ md_file # << >>
    /\ LET out == update_csv_file(csv_file, md_file)
       IN  /\ Len(out.file.rows) <= MaxStore
           /\ csv_file' = out.file
           /\ summary' = out.summary
    /\ csv_before' = csv_file
    /\ runs_on_md' = Min(runs_on_md + 1, 2)
    /\ UNCHANGED md_file
    /\ UNCHANGED <<predictorVars, cc>>

MergerNext == WriteMdLine(LineUniverse) \/ NewMdFile \/ UpdateCsvFile

SpecMerger == MergerInit /\ [][MergerNext]_vars

\* C10: a second run of update_csv_file on the same markdown file, against the
\* store the first run wrote, adds no entry and leaves the store as the first run
\* left it.
C10_SecondRunAddsNothing ==
    runs_on_md = 2 =>
        /\ summary.new_added = 0
        /\ csv_file = csv_before

\* a run of update_csv_file has just ended
MergeRan == runs_on_md >= 1

\* the store as the last run read it, and the entries that run took from the file
StoreRead == NormalizeDates(csv_before.rows)

BatchRead == NormalizeDates(parse_md_file(md_file))

\* the store holds a record of the same ex_date whose name, normalized as the
\* stored names are, equals the entry's and whose amount is within the tolerance
StoreHoldsSame(e, rows) ==
    \E i \in 1..Len(rows) :
        /\ normalize_company_name(rows[i].company) = normalize_company_name(e.company)
        /\ rows[i].ex_date = e.ex_date
        /\ WithinTolerance(rows[i].dividend, e.dividend)

\* C11: an incoming entry is rejected as already existing exactly when the store
\* holds a record with the same ex_date, the same company name after
\* normalize_company_name on both names, and an amount within the 0.01 tolerance.
C11_RejectedIffStoreHoldsSame ==
    (MergeRan /\ ~CsvReadFails(csv_before)) =>
        \A k \in 1..Len(BatchRead) :
            is_duplicate_entry(BatchRead[k], StoreRead)
                <=> StoreHoldsSame(BatchRead[k], StoreRead)

-----------------------------------------------------------------------------
(* The updater on markdown files whose lines spell one entry in several ways *)

NameOtherCode == << "N", " ", "(", "D", ")" >>
NameSpaced    == << "N", " ", " ", "(", "C", ")" >>

\* the base line, and lines that differ from it in the spelling of the name, of
\* the ex_date or of the amount, or by 0.005 in the amount
SpellingLines ==
    { BaseLine,
      [BaseLine EXCEPT !.company = NameOtherCode],
      [BaseLine EXCEPT !.company = NameSpaced],
      [BaseLine EXCEPT !.ex_date = Text(2024, 3, 1, FALSE)],
      [BaseLine EXCEPT !.dividend = Number(1500, TRUE)],
      [BaseLine EXCEPT !.dividend = Number(1505, FALSE)] }

SpellingNext == WriteMdLine(SpellingLines) \/ NewMdFile \/ UpdateCsvFile

SpecSpelling == MergerInit /\ [][SpellingNext]_vars

\* the composite key of an entry: normalized company, ex_date as a calendar date,
\* dividend amount
CompositeKey(e) ==
    << normalize_company_name(e.company), ToOrdinal(StrpTime(e.ex_date)), e.dividend >>

\* C12: among the entries parse_md_file accepts from one markdown file no two
\* have the same composite key (normalized company, ex_date as a calendar date,
\* dividend amount).
C12_BatchKeysUnique ==
    MergeRan =>
        LET entries == parse_md_file(md_file)
        IN  \A j, k \in 1..Len(entries) :
                j < k => CompositeKey(entries[j]) # CompositeKey(entries[k])

-----------------------------------------------------------------------------
(* The updater on markdown files with lines that parse_md_file has to refuse *)

\* the base line, a line with as many columns as the shape check refuses, and
\* lines that differ from the base line in the amount or in a date
ValidationLines ==
    { BaseLine,
      [BaseLine EXCEPT !.parts = 5],
      [BaseLine EXCEPT !.dividend = Number(0, FALSE)],
      [BaseLine EXCEPT !.dividend = NaNText],
      [BaseLine EXCEPT !.payment_date = EmptyText],
      [BaseLine EXCEPT !.ex_date = Text(2024, 2, 30, TRUE)],
      [BaseLine EXCEPT !.payment_date = Text(2024, 3, 1, TRUE)],
      [BaseLine EXCEPT !.ex_date = Text(2024, 1, 15, TRUE),
                       !.payment_date = Text(2024, 1, 1, TRUE)] }

\* the stores of InitialStores and a store whose first row is a record
ValidationStores ==
    InitialStores \cup { [blank_first |-> FALSE, rows |-> << StoredRow >>] }

ValidationInit ==
    /\ PredictorIdle
    /\ cc = NoCall
    /\ csv_file \in ValidationStores
    /\ md_file = << >>
    /\ csv_before = csv_file
    /\ runs_on_md = 0
    /\ summary = NoSummary

ValidationNext == WriteMdLine(ValidationLines) \/ NewMdFile \/ UpdateCsvFile

SpecValidation == ValidationInit /\ [][ValidationNext]_vars

\* the records the last run added to the store
AddedRecords == Range(csv_file.rows) \ Range(StoreRead)

\* both dates are dates of the calendar, the payment is not before the ex-date,
\* and the amount is a number above 0
ValidRecord(r) ==
    /\ r.ex_date # EmptyText /\ r.payment_date # EmptyText
    /\ OnCalendar(r.ex_date.year, r.ex_date.month, r.ex_date.day)
    /\ OnCalendar(r.payment_date.year, r.payment_date.month, r.payment_date.day)
    /\ ToOrdinal(StrpTime(r.payment_date)) >= ToOrdinal(StrpTime(r.ex_date))
    /\ ~IsNaN(r.dividend) /\ r.dividend > 0

\* C13: every record a run adds to the store has an ex_date and a payment_date
\* that are dates of the calendar with payment_date >= ex_date, and an amount
\* strictly greater than 0.
C13_AddedRecordsValid ==
    MergeRan => \A r \in AddedRecords : ValidRecord(r)

\* the lines parse_md_file refuses with "Skipping duplicate in MD file"
RECURSIVE DuplicatesInMdFile(_)
DuplicatesInMdFile(lines) ==
    IF lines = << >> THEN 0
    ELSE LET entries == parse_md_file(Front(lines))
             e == ParseLine(Last(lines))
             seen_entries == { EntryKeyOf(entries[i]) : i \in 1..Len(entries) }
         IN  DuplicatesInMdFile(Front(lines))
                 + (IF e.kind # "skip" /\ EntryKeyOf(e) \in seen_entries THEN 1 ELSE 0)

\* the entries of the last run that is_duplicate_entry found in the store
AlreadyInStore == { k \in 1..Len(BatchRead) : is_duplicate_entry(BatchRead[k], StoreRead) }

\* C14: the counts of the summary printed at the end of a run are the numbers
\* of entries refused in that run: md_duplicates the lines refused as duplicates
\* within the markdown file, csv_duplicates the entries already in the store.
C14_SummaryCountsRejections ==
    (MergeRan /\ summary # NoSummary) =>
        /\ summary.md_duplicates = DuplicatesInMdFile(md_file)
        /\ summary.csv_duplicates = Cardinality(AlreadyInStore)

\* a record with its ex_date as a calendar date
RecordOf(r) == << r.company, ToOrdinal(StrpTime(r.ex_date)), r.dividend, r.payment_date >>

RecordsOf(rows) == { RecordOf(rows[i]) : i \in 1..Len(rows) }

CountOf(rows, rec) == Cardinality({ i \in 1..Len(rows) : RecordOf(rows[i]) = rec })

\* the entries of the last run that were not found in the store
AcceptedEntries == SelectSeq(BatchRead, LAMBDA r : ~is_duplicate_entry(r, StoreRead))

\* the last run accepted an entry and wrote the store
MergeWrote == MergeRan /\ summary.new_added > 0

\* C15: after a run that accepts an entry the store begins with the blank row,
\* and its data rows are the rows stored before plus the accepted entries, in
\* non-decreasing order of ex_date as a calendar date.
C15_StoreSortedByDate ==
    MergeWrote =>
        /\ csv_file.blank_first
        /\ \A rec \in RecordsOf(csv_file.rows) \cup RecordsOf(csv_before.rows)
                          \cup RecordsOf(AcceptedEntries) :
               CountOf(csv_file.rows, rec)
                   = CountOf(csv_before.rows, rec) + CountOf(AcceptedEntries, rec)
        /\ \A j, k \in 1..Len(csv_file.rows) :
               j < k => ToOrdinal(StrpTime(csv_file.rows[j].ex_date))
                            <= ToOrdinal(StrpTime(csv_file.rows[k].ex_date))

\* a run put an accepted entry of 15.01.2024 before a record of 01.03.2024 that
\* was in the store
C15_Witness ==
    /\ MergeWrote
    /\ csv_before.rows # << >>
    /\ csv_file.rows[1] \notin Range(csv_before.rows)
    /\ csv_file.rows[1].ex_date = Text(2024, 1, 15, TRUE)
    /\ Last(csv_file.rows).ex_date = Text(2024, 3, 1, TRUE)

\* C16: a run that could not read the store, that found no valid entry in the
\* markdown file, or that found every entry already in the store leaves the
\* store file exactly as it was before the run.
C16_StoreLeftAsItWas ==
    (MergeRan /\ (\/ CsvReadFails(csv_before)
                  \/ parse_md_file(md_file) = << >>
                  \/ AcceptedEntries = << >>))
        => csv_file = csv_before

\* a run on a store whose first row is a record found no valid entry in a
\* markdown file that has lines
C16_Witness ==
    /\ MergeRan
    /\ ~csv_before.blank_first
    /\ csv_before.rows # << >>
    /\ md_file # << >>
    /\ parse_md_file(md_file) = << >>
    /\ csv_file = csv_before

-----------------------------------------------------------------------------
(* fix_company_names.py: the stored names cleaned of their markdown *)

\* position of the first character of s at or after from that is no space, 0 when none
FirstNonSpaceAt(s, from) ==
    LET hits == { k \in from..Len(s) : ~IsSpace(s[k]) }
    IN  IF hits = {} THEN 0 ELSE CHOOSE k \in hits : \A l \in hits : k <= l

\* re.match(r'\*\*([^*]+)\*\*\s*\(\[([^\]]+)\]', company_name) and its two groups
MarkdownMatch(name) ==
    LET star  == FirstAt(name, "*", 3)
        open  == FirstNonSpaceAt(name, star + 2)
        close == FirstAt(name, "]", open + 2)
    IN  IF /\ Len(name) >= 2 /\ name[1] = "*" /\ name[2] = "*"
           /\ star >= 4
           /\ Len(name) >= star + 1 /\ name[star + 1] = "*"
           /\ open >= 1 /\ name[open] = "("
           /\ Len(name) >= open + 1 /\ name[open + 1] = "["
           /\ close >= open + 3
        THEN [ matched |-> TRUE,
               clean_company |-> Strip(SubSeq(name, 3, star - 1)),
               acronym |-> Strip(SubSeq(name, open + 2, close - 1)) ]
        ELSE [ matched |-> FALSE, clean_company |-> << >>, acronym |-> << >> ]

\* new_name of a stored company name, the name itself when the pattern does not match
FixedName(name) ==
    LET match == MarkdownMatch(name)
    IN  IF match.matched
        THEN match.clean_company \o << " ", "(" >> \o match.acronym \o << ")" >>
        ELSE name

\* the store file fix_company_names_in_csv leaves: df.iloc[0] raises on a file
\* without any row, and the file is written only when a name was changed
fix_company_names_in_csv(file) ==
    LET fixed == [i \in 1..Len(file.rows) |->
                     [file.rows[i] EXCEPT !.company = FixedName(@)]]
    IN  IF CsvReadFails(file) \/ fixed = file.rows THEN file
        ELSE [blank_first |-> file.blank_first, rows |-> fixed]

FixCompanyNames ==
    /\ csv_file' = fix_company_names_in_csv(csv_file)
    /\ UNCHANGED <<md_file, csv_before, runs_on_md, summary>>
    /\ UNCHANGED <<predictorVars, cc>>

NameMarkdownSpaced ==
    << "*", "*", "N", "*", "*", " ", "(", "[", "C", "]", "(", "l", ")", ")" >>
NameMarkdownOther ==
    << "*", "*", "M", "*", "*", "(", "[", "D", "]", "(", "l", ")", ")" >>

\* lines whose company cell has the markdown shape **Name**([CODE](link))
MarkdownLines ==
    { [BaseLine EXCEPT !.company = n] :
          n \in {NameMarkdown, NameMarkdownSpaced, NameMarkdownOther} }
    \cup { [BaseLine EXCEPT !.company = NameMarkdown, !.ex_date = Text(2024, 1, 15, TRUE)],
           [BaseLine EXCEPT !.company = NameMarkdown, !.dividend = Number(2500, FALSE)] }

CleanupNext ==
    WriteMdLine(MarkdownLines) \/ NewMdFile \/ UpdateCsvFile \/ FixCompanyNames

SpecCleanup == MergerInit /\ [][CleanupNext]_vars

\* no stored name has the markdown shape: fix_company_names_in_csv has nothing to change
CleanStore(file) ==
    \A i \in 1..Len(file.rows) : ~MarkdownMatch(file.rows[i].company).matched

\* C17: for a markdown file whose company cells have the markdown shape, a run
\* of update_csv_file on the same file, made after an earlier run on it and
\* against a store whose names fix_company_names_in_csv has cleaned, accepts no
\* entry.
C17_NothingAcceptedAfterCleanup ==
    (runs_on_md = 2 /\ CleanStore(csv_before)) => summary.new_added = 0

\* two records that the against-store rule takes for the same announcement
SameAnnouncement(a, b) ==
    /\ normalize_company_name(a.company) = normalize_company_name(b.company)
    /\ NormalizeDateText(a.ex_date) = NormalizeDateText(b.ex_date)
    /\ WithinTolerance(a.dividend, b.dividend)

\* C18: the store never holds two records with the same normalized company
\* name, the same ex_date and amounts that differ by less than 0.01.
C18_StoreHoldsNoPair ==
    \A j, k \in 1..Len(csv_file.rows) :
        j < k => ~SameAnnouncement(csv_file.rows[j], csv_file.rows[k])

====
